---- MODULE Spec2Model ----
(***************************************************************************)
(* The post-production pipeline of kangen-autopost: the post store         *)
(* (lib/db.js), the three BullMQ queues (lib/queue.js), the content,       *)
(* image and publish workers, the approval engine (lib/auto-approver.js)   *)
(* and the approve / reject endpoints of the two application entry points. *)
(*                                                                         *)
(* Granularity.  A worker yields at its awaits.  The steps kept apart are  *)
(* the ones between which another handler can change what the worker or    *)
(* the platform sees: the publish worker's write of 'posting', its call of *)
(* the publisher and its write of 'posted'; and the deferred approval      *)
(* check's read of the status and its approval.  Consecutive store writes  *)
(* of one handler that read nothing in between are one step.  The store    *)
(* itself is taken to be available; the external calls (content generator, *)
(* image generator, publisher) and the queue's add can fail.               *)
(***************************************************************************)
EXTENDS Integers, Sequences, FiniteSets, TLC

\* ---------------------------------------------------------------- bounds
MaxPosts == 1
MaxContentJobs == 1
MaxPublishJobs == 2
MaxTimers == 1
MaxHistory == 2

\* defaultJobOptions.attempts
attempts == 3

PostIds == 1..MaxPosts

NULL == "NULL"

\* The two application entry points: index.js and index-optimized.js.
Apps == {"basic", "optimized"}

VARIABLES
    posts,          \* kangen_posts: sequence of rows, the id is the index
    contentJobs,    \* queue 'content-generation': sequence of jobs
    imageJobs,      \* queue 'image-generation'
    publishJobs,    \* queue 'facebook-publish'
    timers,         \* pending setTimeout callbacks of scheduleDelayedApproval
    approvalHistory,\* approval_history rows
    published,      \* the platform: successful publisher calls per post id
    app,            \* which entry point runs
    countOnActive,  \* BullMQ: attemptsMade is incremented when an attempt
                    \* starts (v4) or when it ends (v1-3, v5)
    settings,       \* approval_settings: sequence of rows
    approvalAction, \* what the last determineApprovalAction returned
    prediction,     \* what the last predictEngagement returned
    topicStats,     \* kangen_posts per topic, as calculateTopicWeights
                    \* aggregates it: total_posts, avg_engagement (in
                    \* hundredths), posted_count
    topicWeights,   \* topic_weights: topic -> performance_score, in
                    \* thousandths
    topicOrder,     \* the rows of topic_weights as ORDER BY topic ASC
                    \* returns them under the database's collation
    selectedTopic,  \* what the last selectWeightedTopic returned
    currentTopicIndex, \* the scheduler's module variable
    lastPostedTopic,   \* the topic of the latest 'posted' post: {} or {t}
    scheduledTopics,   \* the topics of the content jobs the scheduler added
    schedulerActive,   \* the flag GET /api/status reports
    schedulerReady,    \* the entry point's variable scheduler is assigned
    cronRunning        \* the three cron tasks are started: triggers fire

topicVars == <<topicStats, topicWeights, topicOrder, selectedTopic>>

toggleVars == <<schedulerActive, schedulerReady, cronRunning>>

schedulerVars == <<currentTopicIndex, lastPostedTopic, scheduledTopics,
                   toggleVars>>

vars == <<posts, contentJobs, imageJobs, publishJobs, timers, approvalHistory,
          published, app, countOnActive, settings, approvalAction, prediction,
          topicVars, schedulerVars>>

\* ------------------------------------------------------------ post store
\* INSERT INTO kangen_posts (...) VALUES (..., 'generating')
createPost(ps) ==
    Append(ps, [status |-> "generating",
                image_url |-> NULL,
                facebook_post_id |-> NULL,
                posted_at |-> NULL,
                error_message |-> NULL,
                retry_count |-> 0,
                approval_method |-> NULL,
                confidence_score |-> {}])

\* confidence_score is NULL ({}) or one score ({s}).
\* SELECT * FROM kangen_posts WHERE id = $1: is there a row
postExists(ps, postId) == postId \in DOMAIN ps

\* UPDATE ... SET status = $1, error_message = $2 WHERE id = $3
updatePostStatus(ps, postId, status, errorMessage) ==
    IF postExists(ps, postId)
    THEN [ps EXCEPT ![postId].status = status,
                    ![postId].error_message = errorMessage]
    ELSE ps

\* UPDATE ... SET image_url = $1 WHERE id = $2
updatePostImage(ps, postId, imageUrl) ==
    IF postExists(ps, postId)
    THEN [ps EXCEPT ![postId].image_url = imageUrl]
    ELSE ps

\* UPDATE ... SET status = 'posted', facebook_post_id = $1, posted_at = now
markPostAsPosted(ps, postId, facebookPostId) ==
    IF postExists(ps, postId)
    THEN [ps EXCEPT ![postId].status = "posted",
                    ![postId].facebook_post_id = facebookPostId,
                    ![postId].posted_at = "now"]
    ELSE ps

\* UPDATE ... SET retry_count = retry_count + 1 WHERE id = $1
incrementRetryCount(ps, postId) ==
    IF postExists(ps, postId)
    THEN [ps EXCEPT ![postId].retry_count = @ + 1]
    ELSE ps

\* UPDATE kangen_posts SET status = $1, approval_method = $2 WHERE id = $3
setStatusAndMethod(ps, postId, status, method) ==
    IF postExists(ps, postId)
    THEN [ps EXCEPT ![postId].status = status,
                    ![postId].approval_method = method]
    ELSE ps

\* ---------------------------------------------------------------- queues
\* A job as BullMQ keeps it.  state: waiting (also delayed, awaiting a
\* retry), active, completed, failed.  pc: the worker's position in the
\* processor while the job is active.
\* failedReason: the message of the error the last failed attempt threw.
newJob(postId) ==
    [postId |-> postId, state |-> "waiting", attemptsMade |-> 0, pc |-> "idle",
     failedReason |-> NULL]

\* attemptsMade as the processor of a starting attempt reads it
startAttempt(job) ==
    [job EXCEPT !.state = "active",
                !.attemptsMade = IF countOnActive THEN @ + 1 ELSE @]

\* The attempt threw: BullMQ counts it and retries while attempts remain.
failAttempt(job, reason) ==
    LET made == IF countOnActive THEN job.attemptsMade ELSE job.attemptsMade + 1
    IN  [job EXCEPT !.attemptsMade = made,
                    !.pc = "idle",
                    !.failedReason = reason,
                    !.state = IF made < attempts THEN "waiting" ELSE "failed"]

completeAttempt(job) ==
    LET made == IF countOnActive THEN job.attemptsMade ELSE job.attemptsMade + 1
    IN  [job EXCEPT !.attemptsMade = made, !.pc = "idle", !.state = "completed"]

\* publishQueue.add('publish-to-facebook', {postId}, {delay: 5000})
addPublishJob(jobs, postId) == Append(jobs, newJob(postId))

\* imageQueue.add('generate-image', {postId, topic, content})
addImageGenerationJob(jobs, postId) == Append(jobs, newJob(postId))

\* contentQueue.add('generate-content', {topic, timestamp}): the data of a
\* content job holds no postId (dataPostId is empty).  created: the posts
\* the job's latest attempt inserted.
addContentGenerationJob(jobs) ==
    Append(jobs, [dataPostId |-> {}, state |-> "waiting", attemptsMade |-> 0,
                  pc |-> "idle", failedReason |-> NULL, created |-> {}])

ActiveJobs(jobs) == {j \in DOMAIN jobs : jobs[j].state = "active"}

\* ------------------------------------------------------ approval settings
\* No call has returned yet.
NoResult == [called |-> FALSE]

DEFAULT_SETTINGS ==
    [CONFIDENCE_THRESHOLD_AUTO |-> 85,
     CONFIDENCE_THRESHOLD_MANUAL |-> 60,
     CONFIDENCE_THRESHOLD_DELAYED |-> 70,
     DELAYED_APPROVAL_MINUTES |-> 5]

\* getApprovalSettings, what it returns: the defaults when the table holds
\* no row, the first row otherwise.
getApprovalSettings(tbl) == IF tbl = <<>> THEN DEFAULT_SETTINGS ELSE tbl[1]

\* getApprovalSettings, what it writes: the default row when there is none.
createDefaultSettings(tbl) == IF tbl = <<>> THEN <<DEFAULT_SETTINGS>> ELSE tbl

\* x || d, for a field of the request body: a missing field ({}) and a zero
\* are falsy.
orDefault(x, d) == IF x = {} \/ x = {0} THEN d ELSE CHOOSE v \in x : TRUE

\* updateApprovalSettings: UPDATE approval_settings SET ... (every row; no
\* row is inserted).  The values are stored as given, each falling back to
\* its default; nothing compares them with one another.
updateApprovalSettings(tbl, s) ==
    [i \in DOMAIN tbl |->
        [CONFIDENCE_THRESHOLD_AUTO |->
             orDefault(s.CONFIDENCE_THRESHOLD_AUTO,
                       DEFAULT_SETTINGS.CONFIDENCE_THRESHOLD_AUTO),
         CONFIDENCE_THRESHOLD_MANUAL |->
             orDefault(s.CONFIDENCE_THRESHOLD_MANUAL,
                       DEFAULT_SETTINGS.CONFIDENCE_THRESHOLD_MANUAL),
         CONFIDENCE_THRESHOLD_DELAYED |->
             orDefault(s.CONFIDENCE_THRESHOLD_DELAYED,
                       DEFAULT_SETTINGS.CONFIDENCE_THRESHOLD_DELAYED),
         DELAYED_APPROVAL_MINUTES |->
             orDefault(s.DELAYED_APPROVAL_MINUTES,
                       DEFAULT_SETTINGS.DELAYED_APPROVAL_MINUTES)]]

\* C17, mutant of approvalActionFor: the auto threshold compared with >
\* instead of >=
approvalActionForStrict(st, confidenceScore) ==
    IF confidenceScore > st.CONFIDENCE_THRESHOLD_AUTO THEN "auto_approve"
    ELSE IF confidenceScore >= st.CONFIDENCE_THRESHOLD_DELAYED THEN "delayed_approve"
    ELSE IF confidenceScore >= st.CONFIDENCE_THRESHOLD_MANUAL THEN "optional_review"
    ELSE "manual_review"

\* determineApprovalAction: the action for a score under the settings read
approvalActionFor(st, confidenceScore) ==
    IF confidenceScore >= st.CONFIDENCE_THRESHOLD_AUTO THEN "auto_approve"
    ELSE IF confidenceScore >= st.CONFIDENCE_THRESHOLD_DELAYED THEN "delayed_approve"
    ELSE IF confidenceScore >= st.CONFIDENCE_THRESHOLD_MANUAL THEN "optional_review"
    ELSE "manual_review"

\* determineApprovalAction(postId, confidenceScore), what it returns
determineApprovalAction(tbl, postId, confidenceScore) ==
    [called |-> TRUE,
     postId |-> postId,
     action |-> approvalActionFor(getApprovalSettings(tbl), confidenceScore),
     confidenceScore |-> confidenceScore]

\* ---------------------------------------------------- confidence predictor
\* Scores are kept in hundredths of a point and engagement rates in
\* hundredths, so that a rate times 30 points is the rate's hundredths times
\* 30.  A query result that SQL may leave NULL is a set: {} or {value}.

\* Math.min
Min(a, b) == IF a < b THEN a ELSE b

\* Math.max
Max(a, b) == IF a > b THEN a ELSE b

\* Math.round of a non-negative number of hundredths
Round(h) == (h + 50) \div 100

\* parseFloat(x) || d
parseFloatOr(x, d) == IF x = {} \/ x = {0} THEN d ELSE CHOOSE v \in x : TRUE

\* evaluateContentQuality, in points
evaluateContentQuality(content) ==
    LET lengthScore == IF content.length >= 150 /\ content.length <= 300 THEN 3
                       ELSE IF content.length > 100 THEN 1 ELSE 0
        score == 5 + lengthScore
                   + (IF content.cta THEN 2 ELSE 0)
                   + (IF content.question THEN 2 ELSE 0)
                   + Min(3, content.valueCount)
    IN  Min(10, score)

\* predictHashtagPerformance, in hundredths: 0.5 when there is no tag or
\* the query throws, else (parseFloat(avg) || 0.5) / 2
predictHashtagPerformance(in) ==
    IF in.hashtags # "tags" \/ in.fails = "hashtag"
    THEN 50
    ELSE parseFloatOr(in.hashtagAvg, 50) \div 2

\* calculateRecentMomentum, in hundredths of a point.  post_count === 0
\* holds only if the driver returns COUNT(*) as a number.
calculateRecentMomentum(in) ==
    IF in.fails = "momentum" THEN 1000
    ELSE IF in.postCount = 0 /\ in.countIsNumber THEN 500
    ELSE Min(2000, parseFloatOr(in.avgRecent, 0) * 10)

\* getApprovalRecommendation, of a score in hundredths of a point
getApprovalRecommendation(score) ==
    IF score >= 8500 THEN "auto_approve"
    ELSE IF score >= 7000 THEN "delayed_approve"
    ELSE IF score >= 6000 THEN "optional_approve"
    ELSE "manual_review"

\* Factor 1: topic historical performance
topicScore(in) ==
    IF in.topicRow = {} THEN 0 ELSE Min(3000, parseFloatOr(in.topicRow, 0) * 30)

\* Factor 2: posting time.  An average of zero is falsy only if the driver
\* returns it as a number.
timeScore(in) ==
    IF in.timeAvg = {} \/ (in.timeAvg = {0} /\ in.avgIsNumber)
    THEN 500
    ELSE Min(2000, parseFloatOr(in.timeAvg, 0) * 20)

\* Factor 3: hashtags; skipped when the hashtags string is empty
weightedHashtagScore(in) ==
    IF in.hashtags = "none" THEN 0
    ELSE Min(2000, predictHashtagPerformance(in) * 20)

\* The sum of the baseline and the five factors, before the cap
predictSum(in) ==
    5000 + topicScore(in) + timeScore(in) + weightedHashtagScore(in)
         + evaluateContentQuality(in.content) * 100
         + calculateRecentMomentum(in)

\* C20, mutant of capScore: the cap left out
capScoreMissing(sum) == sum

\* // Cap at 100
capScore(sum) == Min(10000, sum)

\* predictEngagement, what it returns; a store query that throws outside
\* the two guarded helpers ends in the catch block's safe default.
predictEngagement(in) ==
    IF in.fails = "query"
    THEN [called |-> TRUE, confidenceScore |-> 50,
          recommendation |-> "manual_review", sum |-> {}]
    ELSE [called |-> TRUE,
          confidenceScore |-> Round(capScore(predictSum(in))),
          recommendation |-> getApprovalRecommendation(capScore(predictSum(in))),
          sum |-> {predictSum(in)}]

\* ---------------------------------------------------------- topic weights
\* Math.random() is taken from the grid 0/RandomSteps .. (RandomSteps-1)/RandomSteps
RandomSteps == 10

\* At most this many topics have posts in the 30-day window
MaxActiveTopics == 1

DEFAULT_TOPICS ==
    <<"Health Benefits", "Hydration Science", "Detoxification", "Energy Boost",
      "Wellness Tips", "Customer Stories", "pH Balance", "Daily Routine",
      "Lifestyle Change", "Testimonials">>

TopicSet == {DEFAULT_TOPICS[i] : i \in DOMAIN DEFAULT_TOPICS}

\* ORDER BY topic ASC under a bytewise collation ('p' after the capitals)
TopicsBytewise ==
    <<"Customer Stories", "Daily Routine", "Detoxification", "Energy Boost",
      "Health Benefits", "Hydration Science", "Lifestyle Change",
      "Testimonials", "Wellness Tips", "pH Balance">>

\* ORDER BY topic ASC under a dictionary collation
TopicsDictionary ==
    <<"Customer Stories", "Daily Routine", "Detoxification", "Energy Boost",
      "Health Benefits", "Hydration Science", "Lifestyle Change",
      "pH Balance", "Testimonials", "Wellness Tips">>

\* The aggregate row of a topic without a post in the window
NewTopic == [total_posts |-> 0, avg_engagement |-> 0, posted_count |-> 0]

\* The aggregate row of a topic with posts in the window: one post that left
\* 'posted' again and has no engagement; one posted post without engagement;
\* one posted post at 1.00 per hour; ten posted posts at 1000.00 per hour
ActiveAggregates ==
    {[total_posts |-> 1, avg_engagement |-> 0, posted_count |-> 0],
     [total_posts |-> 1, avg_engagement |-> 0, posted_count |-> 1],
     [total_posts |-> 1, avg_engagement |-> 100, posted_count |-> 1],
     [total_posts |-> 10, avg_engagement |-> 100000, posted_count |-> 10]}

TopicStatsInputs ==
    UNION {{[t \in TopicSet |-> IF t \in A THEN f[t] ELSE NewTopic] :
               f \in [A -> ActiveAggregates]} :
           A \in {S \in SUBSET TopicSet : Cardinality(S) <= MaxActiveTopics}}

\* The weight of one topic before normalization, in units of 0.0001:
\* 1.0 for a new topic, else engagement * recency * consistency
topicWeight(row) ==
    IF row.total_posts = 0
    THEN 10000
    ELSE Max(10, row.avg_engagement)
             * (IF row.posted_count > 0 THEN 12 ELSE 8)
             * (IF row.posted_count > 0 THEN 10 + row.posted_count ELSE 10)

\* Object.values(weights).reduce((sum, w) => sum + w.weight, 0), over the
\* first n topics
RECURSIVE totalWeight(_, _)
totalWeight(stats, n) ==
    IF n = 0 THEN 0
    ELSE totalWeight(stats, n - 1) + topicWeight(stats[DEFAULT_TOPICS[n]])

\* The first three decimals of weight / total by long division (the
\* products stay within 32 bits): the value in thousandths and the remainder
decimals3(weight, total) ==
    LET r0 == weight % total
        r1 == (10 * r0) % total
        r2 == (10 * r1) % total
    IN  [value |-> 1000 * (weight \div total) + 100 * ((10 * r0) \div total)
                       + 10 * ((10 * r1) \div total) + (10 * r2) \div total,
         rest |-> (10 * r2) % total]

\* C22, mutant of toFixed3: the quotient cut after three decimals
toFixed3Truncating(weight, total) == decimals3(weight, total).value

\* (weight / total).toFixed(3), in thousandths: rounded to the nearest
toFixed3(weight, total) ==
    decimals3(weight, total).value
        + (IF 2 * decimals3(weight, total).rest >= total THEN 1 ELSE 0)

\* The performance scores calculateTopicWeights stores, one per topic
normalizedWeights(stats) ==
    [t \in TopicSet |->
        toFixed3(topicWeight(stats[t]), totalWeight(stats, Len(DEFAULT_TOPICS)))]

\* The rows SELECT topic, weight FROM topic_weights ORDER BY topic ASC gives
weightRows(tbl, order) == SelectSeq(order, LAMBDA t : t \in DOMAIN tbl)

\* topics.reduce((sum, t) => sum + (t.weight || 0), 0), over the first n rows
RECURSIVE sumWeights(_, _, _)
sumWeights(tbl, topics, n) ==
    IF n = 0 THEN 0 ELSE sumWeights(tbl, topics, n - 1) + tbl[topics[n]]

\* C24, mutant of randomDefaultTopic: the product rounded up, not down
randomDefaultTopicCeil(u) ==
    LET k == (u * Len(DEFAULT_TOPICS)) \div RandomSteps + 1
    IN  IF k + 1 \in DOMAIN DEFAULT_TOPICS THEN DEFAULT_TOPICS[k + 1]
        ELSE "undefined"

\* DEFAULT_TOPICS[Math.floor(Math.random() * DEFAULT_TOPICS.length)]
randomDefaultTopic(u) ==
    DEFAULT_TOPICS[(u * Len(DEFAULT_TOPICS)) \div RandomSteps + 1]

\* C31, mutant of selectWeightedTopic: the walk stops only when the
\* remainder is negative
selectWeightedTopicStrict(tbl, order, fails, u, residue) ==
    LET topics == weightRows(tbl, order)
        total == sumWeights(tbl, topics, Len(topics))
        hits == {i \in 1..Len(topics) :
                    u * total < RandomSteps * sumWeights(tbl, topics, i)}
    IN  IF fails \/ Len(topics) = 0
        THEN randomDefaultTopic(u)
        ELSE IF hits = {} \/ (residue /\ u = RandomSteps - 1 /\ total > 0)
             THEN topics[1]
             ELSE topics[CHOOSE i \in hits : \A h \in hits : i <= h]

\* selectWeightedTopic, what it returns.  fails: the query throws; u: the
\* one Math.random() of the call is u / RandomSteps;
\* residue: with the largest draw, floating-point rounding leaves the
\* remainder positive after the last row, and the fallback returns the
\* first row.
selectWeightedTopic(tbl, order, fails, u, residue) ==
    LET topics == weightRows(tbl, order)
        total == sumWeights(tbl, topics, Len(topics))
        hits == {i \in 1..Len(topics) :
                    u * total <= RandomSteps * sumWeights(tbl, topics, i)}
    IN  IF fails \/ Len(topics) = 0
        THEN randomDefaultTopic(u)
        ELSE IF hits = {} \/ (residue /\ u = RandomSteps - 1 /\ total > 0)
             THEN topics[1]
             ELSE topics[CHOOSE i \in hits : \A h \in hits : i <= h]

\* No topic has a post, topic_weights is empty, nothing was selected
topicsIdle ==
    /\ topicStats = [t \in TopicSet |-> NewTopic]
    /\ topicWeights = [t \in {} |-> 0]
    /\ topicOrder = TopicsBytewise
    /\ selectedTopic = NULL

\* ------------------------------------------------------ scheduler topics
TOPICS ==
    <<"Benefits of Alkaline Water", "Hydration and Wellness",
      "pH Balance and Health", "Kangen Water vs Tap Water",
      "Detoxification Through Water", "Energy and Hydration",
      "Skin Health and Alkaline Water", "Athletic Performance and Hydration",
      "Immune System and pH Balance", "Daily Wellness Routine">>

\* TOPICS.indexOf(topic), zero-based; -1 when absent
indexOf(topic) ==
    IF \E i \in DOMAIN TOPICS : TOPICS[i] = topic
    THEN (CHOOSE i \in DOMAIN TOPICS : TOPICS[i] = topic) - 1
    ELSE -1

\* getNextTopic: the topic it returns and the index it leaves.  lastTopic:
\* what getLastPostedTopic returned, {} for null
getNextTopic(index, lastTopic) ==
    LET lastIndex == IF lastTopic = {} THEN -1
                     ELSE indexOf(CHOOSE t \in lastTopic : TRUE)
        start == IF lastIndex # -1 THEN (lastIndex + 1) % Len(TOPICS) ELSE index
    IN  [topic |-> TOPICS[start + 1], index |-> (start + 1) % Len(TOPICS)]

\* The application has started (initScheduler has run, the flag was never
\* toggled), the scheduler chose no topic yet, no post was ever published
schedulerIdle ==
    /\ currentTopicIndex = 0
    /\ lastPostedTopic = {}
    /\ scheduledTopics = <<>>
    /\ schedulerActive = FALSE
    /\ schedulerReady = TRUE
    /\ cronRunning = TRUE

\* ------------------------------------------------------------------ init
Init ==
    /\ posts = <<>>
    /\ contentJobs = <<>>
    /\ imageJobs = <<>>
    /\ publishJobs = <<>>
    /\ timers = <<>>
    /\ approvalHistory = <<>>
    /\ published = [p \in PostIds |-> 0]
    /\ app \in Apps
    /\ countOnActive \in BOOLEAN
    /\ settings = <<>>
    /\ approvalAction = NoResult
    /\ prediction = NoResult
    /\ topicsIdle
    /\ schedulerIdle

\* ------------------------------------------------------------- scheduler
\* schedulePost: a cron trigger or POST /api/posts/generate of index.js
schedulePost ==
    /\ Len(contentJobs) < MaxContentJobs
    /\ contentJobs' = addContentGenerationJob(contentJobs)
    /\ UNCHANGED <<posts, imageJobs, publishJobs, timers, approvalHistory,
                   published, app, countOnActive,
                   settings, approvalAction, prediction,
                   topicVars, schedulerVars>>

\* ---------------------------------------------------------- content worker
ContentConcurrency == 2

\* contentWorker.on('failed'): after the last attempt, marks the post failed
\* that job.data.postId names, if the data names one
contentFailedHandler(ps, job) ==
    IF job.attemptsMade >= attempts /\ job.dataPostId # {}
    THEN updatePostStatus(ps, CHOOSE p \in job.dataPostId : TRUE, "failed",
                          "Content generation failed")
    ELSE ps

\* One attempt of the content processor.  outcome: "generate_failed"
\* (generateContent threw), "enqueue_failed" (the post was created and
\* addImageGenerationJob threw), "ok".
contentAttempt(j, outcome, maxPosts) ==
    /\ j \in DOMAIN contentJobs
    /\ contentJobs[j].state = "waiting"
    /\ Cardinality(ActiveJobs(contentJobs)) < ContentConcurrency
    /\ LET job == [startAttempt(contentJobs[j]) EXCEPT !.created = {}]
           made == [job EXCEPT !.created = {Len(posts) + 1}]
       IN  CASE outcome = "generate_failed" ->
                  /\ contentJobs' = [contentJobs EXCEPT ![j] =
                                         failAttempt(job, "generate")]
                  /\ posts' = contentFailedHandler(posts, failAttempt(job, "generate"))
                  /\ UNCHANGED imageJobs
            [] outcome = "enqueue_failed" ->
                  /\ Len(posts) < maxPosts
                  /\ contentJobs' = [contentJobs EXCEPT ![j] =
                                         failAttempt(made, "enqueue")]
                  /\ posts' = contentFailedHandler(createPost(posts),
                                                  failAttempt(made, "enqueue"))
                  /\ UNCHANGED imageJobs
            [] outcome = "ok" ->
                  /\ Len(posts) < maxPosts
                  /\ contentJobs' = [contentJobs EXCEPT ![j] = completeAttempt(made)]
                  /\ posts' = createPost(posts)
                  /\ imageJobs' = addImageGenerationJob(imageJobs, Len(posts) + 1)
    /\ UNCHANGED <<publishJobs, timers, approvalHistory, published, app,
                   countOnActive,
                   settings, approvalAction, prediction,
                   topicVars, schedulerVars>>

\* One attempt of the content processor, with the store bounded by MaxPosts
contentWorker(j, outcome) == contentAttempt(j, outcome, MaxPosts)

\* ------------------------------------------------------------ image worker
\* The catch block of the image processor.  On the last attempt it writes
\* 'generating' and calls addPublishJob, which image-worker.js does not
\* import: the call throws a ReferenceError and no job is added.
imageCatch(ps, job) ==
    IF job.attemptsMade < attempts
    THEN ps
    ELSE updatePostStatus(ps, job.postId, "generating", "Image generation failed")

\* imageWorker.on('failed')
imageFailedHandler(ps, job) ==
    IF job.attemptsMade >= attempts
    THEN updatePostStatus(ps, job.postId, "generating", "Image generation failed")
    ELSE ps

\* The try block after generateImage returned.
imageSuccess(ps, postId, imageUrl) ==
    LET afterImage ==
            IF imageUrl # NULL
            THEN updatePostImage(ps, postId, imageUrl)
            ELSE updatePostStatus(ps, postId, "scheduled",
                                  "Image generation failed - will post text only")
    IN  updatePostStatus(afterImage, postId, "scheduled", NULL)

\* One attempt of the image processor.  outcome: "url" (an image), "null"
\* (generateImage returned null: a 400 or 429), "throw" (generateImage
\* threw).  A missing post throws before the generator is called.
imageWorker(j, outcome) ==
    /\ j \in DOMAIN imageJobs
    /\ imageJobs[j].state = "waiting"
    /\ ActiveJobs(imageJobs) = {}
    /\ LET job == startAttempt(imageJobs[j])
           postId == job.postId
       IN  IF postExists(posts, postId) /\ outcome # "throw"
           THEN /\ posts' = imageSuccess(posts, postId,
                                         IF outcome = "url" THEN "url" ELSE NULL)
                /\ imageJobs' = [imageJobs EXCEPT ![j] = completeAttempt(job)]
           ELSE /\ posts' = imageFailedHandler(imageCatch(posts, job),
                                               failAttempt(job, "image"))
                /\ imageJobs' = [imageJobs EXCEPT ![j] = failAttempt(job, "image")]
    /\ UNCHANGED <<contentJobs, publishJobs, timers, approvalHistory, published,
                   app, countOnActive,
                   settings, approvalAction, prediction,
                   topicVars, schedulerVars>>

\* C34, mutant of publishCatch: the last attempt marks the post failed
\* without a message
publishCatchNoMessage(ps, job, kind) ==
    LET counted == incrementRetryCount(ps, job.postId)
    IN  IF kind = "token"
        THEN updatePostStatus(counted, job.postId, "failed", "Token error")
        ELSE IF job.attemptsMade < attempts
             THEN updatePostStatus(counted, job.postId, "scheduled", "Retry")
             ELSE updatePostStatus(counted, job.postId, "failed", NULL)

\* ---------------------------------------------------------- publish worker
\* The catch block of the publish processor.  kind: "not_found" (getPost
\* returned no row), "transient", "token" (the message names the token).
publishCatch(ps, job, kind) ==
    LET counted == incrementRetryCount(ps, job.postId)
    IN  IF kind = "token"
        THEN updatePostStatus(counted, job.postId, "failed", "Token error")
        ELSE IF job.attemptsMade < attempts
             THEN updatePostStatus(counted, job.postId, "scheduled", "Retry")
             ELSE updatePostStatus(counted, job.postId, "failed", "Publish error")

\* The job leaves the queue's wait list; getPost; updatePostStatus('posting').
\* The worker's concurrency is 1.
publishStart(j) ==
    /\ j \in DOMAIN publishJobs
    /\ publishJobs[j].state = "waiting"
    /\ ActiveJobs(publishJobs) = {}
    /\ LET job == startAttempt(publishJobs[j])
           postId == job.postId
       IN  IF postExists(posts, postId)
           THEN /\ posts' = updatePostStatus(posts, postId, "posting", NULL)
                /\ publishJobs' = [publishJobs EXCEPT ![j] =
                                       [job EXCEPT !.pc = "call"]]
           ELSE /\ posts' = publishCatch(posts, job, "not_found")
                /\ publishJobs' = [publishJobs EXCEPT ![j] =
                                       failAttempt(job, "not_found")]
    /\ UNCHANGED <<contentJobs, imageJobs, timers, approvalHistory, published,
                   app, countOnActive,
                   settings, approvalAction, prediction,
                   topicVars, schedulerVars>>

\* postToFacebook returned an id: the platform holds one more post.
publishCallOk(j) ==
    /\ j \in DOMAIN publishJobs
    /\ publishJobs[j].state = "active"
    /\ publishJobs[j].pc = "call"
    /\ published' = [published EXCEPT ![publishJobs[j].postId] = @ + 1]
    /\ publishJobs' = [publishJobs EXCEPT ![j].pc = "mark"]
    /\ UNCHANGED <<posts, contentJobs, imageJobs, timers, approvalHistory, app,
                   countOnActive,
                   settings, approvalAction, prediction,
                   topicVars, schedulerVars>>

\* postToFacebook threw: the catch block, then BullMQ's retry decision.  The
\* token branch throws a plain Error, which BullMQ retries like any other.
publishCallFail(j, kind) ==
    /\ j \in DOMAIN publishJobs
    /\ publishJobs[j].state = "active"
    /\ publishJobs[j].pc = "call"
    /\ posts' = publishCatch(posts, publishJobs[j], kind)
    /\ publishJobs' = [publishJobs EXCEPT ![j] = failAttempt(publishJobs[j], kind)]
    /\ UNCHANGED <<contentJobs, imageJobs, timers, approvalHistory, published,
                   app, countOnActive,
                   settings, approvalAction, prediction,
                   topicVars, schedulerVars>>

\* markPostAsPosted after the publisher returned; the job completes.
publishMark(j) ==
    /\ j \in DOMAIN publishJobs
    /\ publishJobs[j].state = "active"
    /\ publishJobs[j].pc = "mark"
    /\ posts' = markPostAsPosted(posts, publishJobs[j].postId, "fbid")
    /\ publishJobs' = [publishJobs EXCEPT ![j] = completeAttempt(publishJobs[j])]
    /\ UNCHANGED <<contentJobs, imageJobs, timers, approvalHistory, published,
                   app, countOnActive,
                   settings, approvalAction, prediction,
                   topicVars, schedulerVars>>

\* -------------------------------------------------- generate endpoint
\* Engagement rates the store may hold, in hundredths (even, so that the
\* halving in predictHashtagPerformance is exact).
Rates == {0, 40, 82, 260}

\* An aggregate or a column a query returns: NULL or a rate
RateResults == {{}} \cup {{r} : r \in Rates}

\* Contents: empty; short and plain; of the optimal length with a call to
\* action and a question; the same with four value words.
Contents ==
    {[length |-> 0, cta |-> FALSE, question |-> FALSE, valueCount |-> 0],
     [length |-> 120, cta |-> FALSE, question |-> FALSE, valueCount |-> 0],
     [length |-> 200, cta |-> TRUE, question |-> TRUE, valueCount |-> 0],
     [length |-> 200, cta |-> TRUE, question |-> TRUE, valueCount |-> 4]}

\* What predictEngagement is called with and what its queries return.
\* hashtags: "none" (an empty string), "notags" (no word starts with #),
\* "tags".  fails: which query throws.
PredictInputs ==
    [topicRow : RateResults, timeAvg : RateResults, avgIsNumber : BOOLEAN,
     hashtags : {"none", "notags", "tags"}, hashtagAvg : RateResults,
     content : Contents, postCount : {0, 1}, countIsNumber : BOOLEAN,
     avgRecent : RateResults,
     fails : {"none", "query", "hashtag", "momentum"}]

\* A new topic at an hour without history, no hashtags, empty content
ColdInput ==
    [topicRow |-> {}, timeAvg |-> {0}, avgIsNumber |-> FALSE,
     hashtags |-> "none", hashtagAvg |-> {},
     content |-> [length |-> 0, cta |-> FALSE, question |-> FALSE,
                  valueCount |-> 0],
     postCount |-> 0, countIsNumber |-> FALSE, avgRecent |-> {},
     fails |-> "none"]

\* The drafts POST /api/posts/generate is taken to produce: one for each
\* approval action under the default thresholds (scores 55, 60, 70, 90).
GenerateInputs ==
    {ColdInput,
     [ColdInput EXCEPT !.timeAvg = {}],
     [ColdInput EXCEPT !.timeAvg = {}, !.hashtags = "notags"],
     [ColdInput EXCEPT !.timeAvg = {}, !.topicRow = {260}]}

\* generateContentAndImageParallel: the image reference, null when the image
\* generator failed
GeneratedImages == {"url", NULL}

\* INSERT INTO kangen_posts (..., status, confidence_score, approval_method)
\* VALUES (..., 'scheduled', prediction.confidenceScore, approvalAction.action)
insertGeneratedPost(ps, imageUrl, confidenceScore, action) ==
    Append(ps, [status |-> "scheduled",
                image_url |-> imageUrl,
                facebook_post_id |-> NULL,
                posted_at |-> NULL,
                error_message |-> NULL,
                retry_count |-> 0,
                approval_method |-> action,
                confidence_score |-> {confidenceScore}])

\* POST /api/posts/generate of index-optimized.js: predicts, decides and
\* stores the draft.  It calls neither autoApprovePost nor
\* scheduleDelayedApproval and adds no job.
generatePost(in, imageUrl) ==
    /\ app = "optimized"
    /\ Len(posts) < MaxPosts
    /\ LET p == predictEngagement(in)
           a == determineApprovalAction(settings, 0, p.confidenceScore)
       IN  /\ prediction' = p
           /\ approvalAction' = a
           /\ settings' = createDefaultSettings(settings)
           /\ posts' = insertGeneratedPost(posts, imageUrl, p.confidenceScore,
                                           a.action)
    /\ UNCHANGED <<contentJobs, imageJobs, publishJobs, timers, approvalHistory,
                   published, app, countOnActive,
                   topicVars, schedulerVars>>

\* --------------------------------------------------------- approval engine
\* The queue's add either stores the job or throws.
enqueuePublish(postId, ok) ==
    IF ok
    THEN /\ Len(publishJobs) < MaxPublishJobs
         /\ publishJobs' = addPublishJob(publishJobs, postId)
    ELSE UNCHANGED publishJobs

\* autoApprovePost: the UPDATE has no condition on the current status.
autoApproveUpdate(ps, postId) == setStatusAndMethod(ps, postId, "posting", "auto")

\* userApprovePost
userApproveUpdate(ps, postId) ==
    setStatusAndMethod(ps, postId, "posting", "manual_approve")

\* POST /api/posts/:id/approve of index-optimized.js
userApprovePost(postId, ok) ==
    /\ app = "optimized"
    /\ posts' = userApproveUpdate(posts, postId)
    /\ enqueuePublish(postId, ok)
    /\ UNCHANGED <<contentJobs, imageJobs, timers, approvalHistory, published,
                   app, countOnActive,
                   settings, approvalAction, prediction,
                   topicVars, schedulerVars>>

\* POST /api/posts/:id/approve of index.js: UPDATE ... SET status = 'posting'
apiApprove(postId, ok) ==
    /\ app = "basic"
    /\ posts' = IF postExists(posts, postId)
                THEN [posts EXCEPT ![postId].status = "posting"]
                ELSE posts
    /\ enqueuePublish(postId, ok)
    /\ UNCHANGED <<contentJobs, imageJobs, timers, approvalHistory, published,
                   app, countOnActive,
                   settings, approvalAction, prediction,
                   topicVars, schedulerVars>>

\* recordRejection: INSERT INTO approval_history (post_id, user_rating,
\* predicted_score) VALUES ($1, -1, $3)
recordRejection(history, postId, score) ==
    Append(history, [post_id |-> postId, user_rating |-> -1,
                     predicted_score |-> score])

\* C29, mutant of rejectPostResult: the rejection recorded whatever the score
rejectPostAlwaysRecords(ps, history, postId) ==
    IF ~postExists(ps, postId)
    THEN [error |-> "Post not found", posts |-> ps, history |-> history]
    ELSE [error |-> NULL,
          posts |-> setStatusAndMethod(ps, postId, "rejected", "manual_reject"),
          history |-> recordRejection(history, postId,
                          IF ps[postId].confidence_score = {} THEN 0
                          ELSE CHOOSE s \in ps[postId].confidence_score : TRUE)]

\* rejectPost, what it leaves in the store and what it throws.  A missing
\* post throws 'Post not found' before anything is written.
rejectPostResult(ps, history, postId) ==
    IF ~postExists(ps, postId)
    THEN [error |-> "Post not found", posts |-> ps, history |-> history]
    ELSE [error |-> NULL,
          posts |-> setStatusAndMethod(ps, postId, "rejected", "manual_reject"),
          history |->
              IF \E s \in ps[postId].confidence_score : s >= 70
              THEN recordRejection(history, postId,
                                   CHOOSE s \in ps[postId].confidence_score : TRUE)
              ELSE history]

\* rejectPost; POST /api/posts/:id/reject of index-optimized.js
rejectPost(postId) ==
    /\ app = "optimized"
    /\ LET r == rejectPostResult(posts, approvalHistory, postId)
       IN  /\ Len(r.history) <= MaxHistory
           /\ posts' = r.posts
           /\ approvalHistory' = r.history
    /\ UNCHANGED <<contentJobs, imageJobs, publishJobs, timers, published, app,
                   countOnActive,
                   settings, approvalAction, prediction,
                   topicVars, schedulerVars>>

\* POST /api/posts/:id/reject of index.js: status 'failed', 'Rejected by user'
apiReject(postId) ==
    /\ app = "basic"
    /\ postExists(posts, postId)
    /\ posts' = updatePostStatus(posts, postId, "failed", "Rejected by user")
    /\ UNCHANGED <<contentJobs, imageJobs, publishJobs, timers, approvalHistory,
                   published, app, countOnActive,
                   settings, approvalAction, prediction,
                   topicVars, schedulerVars>>

\* C14, mutant of autoApprovePost: called for any draft that awaits review,
\* whatever its decision
autoApprovePostAnyDraft(postId, ok) ==
    /\ app = "optimized"
    /\ postExists(posts, postId)
    /\ posts[postId].status = "scheduled"
    /\ posts' = autoApproveUpdate(posts, postId)
    /\ enqueuePublish(postId, ok)
    /\ UNCHANGED <<contentJobs, imageJobs, timers, approvalHistory, published,
                   app, countOnActive, settings, approvalAction, prediction,
                   topicVars, schedulerVars>>

\* autoApprovePost and scheduleDelayedApproval are exported by
\* auto-approver.js and called from no file of the repository; they are
\* taken to be called as section 4.3 of the specification has them called,
\* for a draft that awaits review (status 'scheduled') and whose stored
\* decision is the one the operation belongs to.
\* autoApprovePost called for a draft whose decision is auto_approve.
autoApprovePost(postId, ok) ==
    /\ app = "optimized"
    /\ postExists(posts, postId)
    /\ posts[postId].status = "scheduled"
    /\ posts[postId].approval_method = "auto_approve"
    /\ posts' = autoApproveUpdate(posts, postId)
    /\ enqueuePublish(postId, ok)
    /\ UNCHANGED <<contentJobs, imageJobs, timers, approvalHistory, published,
                   app, countOnActive,
                   settings, approvalAction, prediction,
                   topicVars, schedulerVars>>

\* scheduleDelayedApproval called for a draft whose decision is
\* delayed_approve: approval_method = 'delayed', and a timer is set.
scheduleDelayedApproval(postId) ==
    /\ app = "optimized"
    /\ postExists(posts, postId)
    /\ posts[postId].status = "scheduled"
    /\ posts[postId].approval_method = "delayed_approve"
    /\ Len(timers) < MaxTimers
    /\ posts' = [posts EXCEPT ![postId].approval_method = "delayed"]
    /\ timers' = Append(timers, [postId |-> postId, pc |-> "armed"])
    /\ UNCHANGED <<contentJobs, imageJobs, publishJobs, approvalHistory,
                   published, app, countOnActive,
                   settings, approvalAction, prediction,
                   topicVars, schedulerVars>>

\* What the timer callback decides from the status it read.
delayedCheckDecision(status) == IF status = "scheduled" THEN "approve" ELSE "done"

\* The timer fires: SELECT status FROM kangen_posts WHERE id = $1
delayedApprovalCheck(t) ==
    /\ t \in DOMAIN timers
    /\ timers[t].pc = "armed"
    /\ timers' = [timers EXCEPT ![t].pc =
                      delayedCheckDecision(posts[timers[t].postId].status)]
    /\ UNCHANGED <<posts, contentJobs, imageJobs, publishJobs, approvalHistory,
                   published, app, countOnActive,
                   settings, approvalAction, prediction,
                   topicVars, schedulerVars>>

\* The callback resumes after its SELECT: await autoApprovePost(postId)
delayedApprovalApprove(t, ok) ==
    /\ t \in DOMAIN timers
    /\ timers[t].pc = "approve"
    /\ posts' = autoApproveUpdate(posts, timers[t].postId)
    /\ enqueuePublish(timers[t].postId, ok)
    /\ timers' = [timers EXCEPT ![t].pc = "done"]
    /\ UNCHANGED <<contentJobs, imageJobs, approvalHistory, published, app,
                   countOnActive,
                   settings, approvalAction, prediction,
                   topicVars, schedulerVars>>

\* ------------------------------------------------------------------ next
ContentOutcomes == {"generate_failed", "enqueue_failed", "ok"}
ImageOutcomes == {"url", "null", "throw"}
PublishErrors == {"transient", "token"}

Next ==
    \/ schedulePost
    \/ \E j \in DOMAIN contentJobs, o \in ContentOutcomes : contentWorker(j, o)
    \/ \E j \in DOMAIN imageJobs, o \in ImageOutcomes : imageWorker(j, o)
    \/ \E j \in DOMAIN publishJobs : publishStart(j)
    \/ \E j \in DOMAIN publishJobs : publishCallOk(j)
    \/ \E j \in DOMAIN publishJobs, k \in PublishErrors : publishCallFail(j, k)
    \/ \E j \in DOMAIN publishJobs : publishMark(j)
    \/ \E p \in PostIds, ok \in BOOLEAN : userApprovePost(p, ok)
    \/ \E p \in PostIds, ok \in BOOLEAN : apiApprove(p, ok)
    \/ \E p \in PostIds : rejectPost(p)
    \/ \E p \in PostIds : apiReject(p)
    \/ \E p \in PostIds, ok \in BOOLEAN : autoApprovePost(p, ok)
    \/ \E p \in PostIds : scheduleDelayedApproval(p)
    \/ \E t \in DOMAIN timers : delayedApprovalCheck(t)
    \/ \E t \in DOMAIN timers, ok \in BOOLEAN : delayedApprovalApprove(t, ok)
    \/ \E in \in GenerateInputs, img \in GeneratedImages : generatePost(in, img)

Spec == Init /\ [][Next]_vars

\* ------------------------------------------- the approval settings alone
\* The settings endpoints of index-optimized.js and determineApprovalAction,
\* with the pipeline at rest.
ThresholdInputs == {{}, {0}, {50}, {70}, {90}}
MinutesInputs == {{}, {10}}

\* The body of POST /api/settings/approval: each field missing or a number
SettingsInputs ==
    [CONFIDENCE_THRESHOLD_AUTO : ThresholdInputs,
     CONFIDENCE_THRESHOLD_MANUAL : ThresholdInputs,
     CONFIDENCE_THRESHOLD_DELAYED : ThresholdInputs,
     DELAYED_APPROVAL_MINUTES : MinutesInputs]

\* Confidence scores determineApprovalAction is called with
Scores == {0, 49, 50, 59, 60, 69, 70, 84, 85, 89, 90, 100}

\* GET /api/settings/approval: getApprovalSettings
apiGetApprovalSettings ==
    /\ settings' = createDefaultSettings(settings)
    /\ UNCHANGED <<posts, contentJobs, imageJobs, publishJobs, timers,
                   approvalHistory, published, app, countOnActive,
                   approvalAction, prediction,
                   topicVars, schedulerVars>>

\* POST /api/settings/approval: updateApprovalSettings(req.body)
apiUpdateApprovalSettings(s) ==
    /\ settings' = updateApprovalSettings(settings, s)
    /\ UNCHANGED <<posts, contentJobs, imageJobs, publishJobs, timers,
                   approvalHistory, published, app, countOnActive,
                   approvalAction, prediction,
                   topicVars, schedulerVars>>

\* determineApprovalAction(0, confidenceScore), as the generate endpoint
\* calls it
decide(confidenceScore) ==
    /\ approvalAction' = determineApprovalAction(settings, 0, confidenceScore)
    /\ settings' = createDefaultSettings(settings)
    /\ UNCHANGED <<posts, contentJobs, imageJobs, publishJobs, timers,
                   approvalHistory, published, app, countOnActive, prediction,
                   topicVars, schedulerVars>>

InitApproval == Init /\ app = "optimized" /\ ~countOnActive

NextApproval ==
    \/ apiGetApprovalSettings
    \/ \E s \in SettingsInputs : apiUpdateApprovalSettings(s)
    \/ \E sc \in Scores : decide(sc)

ApprovalSpec == InitApproval /\ [][NextApproval]_vars

\* ------------------------------------------------- the predictor alone
\* One call of predictEngagement: prediction holds the call's arguments
\* until it returns, and its result afterwards.
InitPredict ==
    /\ posts = <<>>
    /\ contentJobs = <<>>
    /\ imageJobs = <<>>
    /\ publishJobs = <<>>
    /\ timers = <<>>
    /\ approvalHistory = <<>>
    /\ published = [p \in PostIds |-> 0]
    /\ app = "optimized"
    /\ countOnActive = FALSE
    /\ settings = <<>>
    /\ approvalAction = NoResult
    /\ \E in \in PredictInputs : prediction = [called |-> FALSE, args |-> in]
    /\ topicsIdle
    /\ schedulerIdle

predictCall ==
    /\ ~prediction.called
    /\ prediction' = predictEngagement(prediction.args)
    /\ UNCHANGED <<posts, contentJobs, imageJobs, publishJobs, timers,
                   approvalHistory, published, app, countOnActive, settings,
                   approvalAction,
                   topicVars, schedulerVars>>

NextPredict == predictCall

PredictSpec == InitPredict /\ [][NextPredict]_vars

\* ------------------------------------------------ the topic analyzer alone
\* The aggregates of kangen_posts are drawn once; topic_weights starts empty.
InitTopics ==
    /\ posts = <<>>
    /\ contentJobs = <<>>
    /\ imageJobs = <<>>
    /\ publishJobs = <<>>
    /\ timers = <<>>
    /\ approvalHistory = <<>>
    /\ published = [p \in PostIds |-> 0]
    /\ app = "optimized"
    /\ countOnActive = FALSE
    /\ settings = <<>>
    /\ approvalAction = NoResult
    /\ prediction = NoResult
    /\ topicStats \in TopicStatsInputs
    /\ topicWeights = [t \in {} |-> 0]
    /\ topicOrder \in {TopicsBytewise, TopicsDictionary}
    /\ selectedTopic = NULL
    /\ schedulerIdle

\* initializeTopicWeights: an empty table gets every topic at 0.1
initializeTopicWeights ==
    /\ topicWeights' = IF DOMAIN topicWeights = {}
                       THEN [t \in TopicSet |-> 100]
                       ELSE topicWeights
    /\ UNCHANGED <<posts, contentJobs, imageJobs, publishJobs, timers,
                   approvalHistory, published, app, countOnActive, settings,
                   approvalAction, prediction, topicStats, topicOrder,
                   selectedTopic, schedulerVars>>

\* calculateTopicWeights: one row per topic is inserted or updated
calculateTopicWeights ==
    /\ topicWeights' =
           [t \in DOMAIN topicWeights \cup TopicSet |->
               IF t \in TopicSet THEN normalizedWeights(topicStats)[t]
               ELSE topicWeights[t]]
    /\ UNCHANGED <<posts, contentJobs, imageJobs, publishJobs, timers,
                   approvalHistory, published, app, countOnActive, settings,
                   approvalAction, prediction, topicStats, topicOrder,
                   selectedTopic, schedulerVars>>

\* One call of selectWeightedTopic
selectTopic(fails, u, residue) ==
    /\ selectedTopic' = selectWeightedTopic(topicWeights, topicOrder, fails,
                                            u, residue)
    /\ UNCHANGED <<posts, contentJobs, imageJobs, publishJobs, timers,
                   approvalHistory, published, app, countOnActive, settings,
                   approvalAction, prediction, topicStats, topicWeights,
                   topicOrder, schedulerVars>>

NextTopics ==
    \/ initializeTopicWeights
    \/ calculateTopicWeights
    \/ \E fails \in BOOLEAN, u \in 0..(RandomSteps - 1), residue \in BOOLEAN :
           selectTopic(fails, u, residue)

TopicSpec == InitTopics /\ [][NextTopics]_vars

\* ---------------------------------------------------- the scheduler alone
MaxScheduled == 3

\* A topic of a post that the scheduler did not choose
ForeignTopic == "Health Benefits"

\* The scheduler starts with index 0; the store may hold a posted post of
\* an earlier run.
InitScheduler ==
    /\ posts = <<>>
    /\ contentJobs = <<>>
    /\ imageJobs = <<>>
    /\ publishJobs = <<>>
    /\ timers = <<>>
    /\ approvalHistory = <<>>
    /\ published = [p \in PostIds |-> 0]
    /\ app = "basic"
    /\ countOnActive = FALSE
    /\ settings = <<>>
    /\ approvalAction = NoResult
    /\ prediction = NoResult
    /\ topicsIdle
    /\ currentTopicIndex = 0
    /\ lastPostedTopic \in {{}} \cup {{ForeignTopic}}
                            \cup {{TOPICS[i]} : i \in DOMAIN TOPICS}
    /\ scheduledTopics = <<>>
    /\ schedulerActive = FALSE
    /\ schedulerReady = FALSE
    /\ cronRunning = FALSE

\* schedulePost of the scheduler, as far as the topic goes.  dbFails:
\* getLastPostedTopic caught an error and returned null; enqueued: whether
\* addContentGenerationJob returned (its error is caught and logged).
schedulePostTopic(dbFails, enqueued) ==
    /\ Len(scheduledTopics) < MaxScheduled
    /\ LET next == getNextTopic(currentTopicIndex,
                                IF dbFails THEN {} ELSE lastPostedTopic)
       IN  /\ currentTopicIndex' = next.index
           /\ scheduledTopics' =
                  Append(scheduledTopics,
                         [topic |-> next.topic, enqueued |-> enqueued])
    /\ UNCHANGED <<posts, contentJobs, imageJobs, publishJobs, timers,
                   approvalHistory, published, app, countOnActive, settings,
                   approvalAction, prediction, topicVars, lastPostedTopic,
                   toggleVars>>

\* A post of a topic the scheduler enqueued is published and becomes the
\* latest posted post.
postPublished(i) ==
    /\ i \in DOMAIN scheduledTopics
    /\ scheduledTopics[i].enqueued
    /\ lastPostedTopic' = {scheduledTopics[i].topic}
    /\ UNCHANGED <<posts, contentJobs, imageJobs, publishJobs, timers,
                   approvalHistory, published, app, countOnActive, settings,
                   approvalAction, prediction, topicVars, currentTopicIndex,
                   scheduledTopics, toggleVars>>

\* startApp / startApplication: scheduler = initScheduler().  The three
\* tasks are created with scheduled: true; the flag is not touched.
startScheduler ==
    /\ ~schedulerReady
    /\ schedulerReady' = TRUE
    /\ cronRunning' = TRUE
    /\ UNCHANGED <<posts, contentJobs, imageJobs, publishJobs, timers,
                   approvalHistory, published, app, countOnActive, settings,
                   approvalAction, prediction, topicVars, currentTopicIndex,
                   lastPostedTopic, scheduledTopics, schedulerActive>>

\* POST /api/scheduler/toggle with body {active}
toggleScheduler(active) ==
    /\ schedulerActive' = active
    /\ cronRunning' = IF schedulerReady THEN active ELSE cronRunning
    /\ UNCHANGED <<posts, contentJobs, imageJobs, publishJobs, timers,
                   approvalHistory, published, app, countOnActive, settings,
                   approvalAction, prediction, topicVars, currentTopicIndex,
                   lastPostedTopic, scheduledTopics, schedulerReady>>

NextScheduler ==
    \/ \E dbFails \in BOOLEAN, enqueued \in BOOLEAN :
           schedulePostTopic(dbFails, enqueued)
    \/ \E i \in 1..MaxScheduled : postPublished(i)
    \/ startScheduler
    \/ \E active \in BOOLEAN : toggleScheduler(active)

SchedulerSpec == InitScheduler /\ [][NextScheduler]_vars

\* ------------------------------------------------ the content stage alone
\* The scheduler, the content worker and the image worker, with room in the
\* store for one post per attempt of a content job.
MaxContentPosts == 3

contentRetry(j, outcome) == contentAttempt(j, outcome, MaxContentPosts)

NextContent ==
    \/ schedulePost
    \/ \E j \in 1..MaxContentJobs, o \in ContentOutcomes : contentRetry(j, o)
    \/ \E j \in 1..MaxContentPosts, o \in ImageOutcomes : imageWorker(j, o)

ContentSpec == Init /\ [][NextContent]_vars

\* GET /api/posts/pending: getPendingReview(20)
PendingLimit == 20

\* getPendingReview, the ids it returns: the posts with status 'scheduled'
\* and approval method 'manual', lowest confidence first, at most limit
getPendingReview(ps, limit) ==
    LET rows == {p \in DOMAIN ps : /\ ps[p].status = "scheduled"
                                   /\ ps[p].approval_method = "manual"}
        score(p) == IF ps[p].confidence_score = {} THEN 0
                    ELSE CHOOSE s \in ps[p].confidence_score : TRUE
    IN  IF Cardinality(rows) <= limit
        THEN rows
        ELSE CHOOSE S \in SUBSET rows :
                 /\ Cardinality(S) = limit
                 /\ \A a \in S, b \in rows \ S : score(a) <= score(b)

\* ================================================================ claims
Terminal == {"failed", "rejected"}

\* C1: in every reachable state and for every post, the external publish id
\* (facebook_post_id) is non-null if and only if the post's status is
\* 'posted'.
C1_PublishIdIffPosted ==
    \A p \in DOMAIN posts :
        (posts[p].facebook_post_id # NULL) <=> (posts[p].status = "posted")

\* C2: 'failed' and 'rejected' are absorbing: no step changes the status of
\* a post that is 'failed' or 'rejected'.
C2_TerminalAbsorbing ==
    [][\A p \in DOMAIN posts :
          posts[p].status \in Terminal => posts'[p].status = posts[p].status]_vars

\* C3: the deferred approval check approves only a post that is still
\* 'scheduled' at the moment it writes 'posting': its read and its write act
\* as one conditional update, whatever a manual approve or reject does in
\* between.
C3_DeferredCheckIsConditional ==
    [][\A t \in DOMAIN timers :
          (timers[t].pc = "approve" /\ timers'[t].pc = "done")
              => posts[timers[t].postId].status = "scheduled"]_vars

\* C4: for every post the publisher is successfully invoked at most once.
C4_PublishedAtMostOnce == \A p \in PostIds : published[p] <= 1

\* C5: a queued publish or image job that starts to run for a post that is
\* 'rejected' or 'failed' does nothing: it writes no field of the post and
\* does not call the publisher.
C5_QueuedJobsNoOpOnTerminal ==
    [][/\ \A j \in DOMAIN publishJobs :
             (/\ publishJobs[j].state = "waiting"
              /\ publishJobs'[j] # publishJobs[j]
              /\ postExists(posts, publishJobs[j].postId)
              /\ posts[publishJobs[j].postId].status \in Terminal)
                 => (posts' = posts /\ published' = published)
       /\ \A j \in DOMAIN imageJobs :
             (/\ imageJobs[j].state = "waiting"
              /\ imageJobs'[j] # imageJobs[j]
              /\ postExists(posts, imageJobs[j].postId)
              /\ posts[imageJobs[j].postId].status \in Terminal)
                 => posts' = posts]_vars

\* C6: a publish job whose attempt failed with a token error is not
\* attempted again: it never becomes active after that failure.
C6_TokenErrorNotRetried ==
    \A j \in DOMAIN publishJobs :
        publishJobs[j].failedReason = "token" => publishJobs[j].state # "active"

\* C7: when an image job fails on its last attempt, the post it refers to
\* is left in status 'scheduled' with a null image reference.
C7_ImageExhaustedEndsScheduled ==
    [][\A j \in DOMAIN imageJobs :
          (/\ imageJobs[j].state # "failed"
           /\ imageJobs'[j].state = "failed"
           /\ postExists(posts, imageJobs[j].postId))
              => (/\ posts'[imageJobs[j].postId].status = "scheduled"
                  /\ posts'[imageJobs[j].postId].image_url = NULL)]_vars

\* C8: when a publish attempt fails with a transient error, the post becomes
\* 'scheduled' if the job has attempts left and 'failed' if that attempt was
\* the job's last.
C8_TransientFailureStatus ==
    [][\A j \in DOMAIN publishJobs :
          (/\ publishJobs[j].state = "active"
           /\ publishJobs[j].pc = "call"
           /\ publishJobs'[j].state # "active"
           /\ publishJobs'[j].failedReason = "transient"
           /\ postExists(posts, publishJobs[j].postId))
              => posts'[publishJobs[j].postId].status =
                     IF publishJobs'[j].state = "failed" THEN "failed" ELSE "scheduled"]_vars

\* C9: when a content job has failed on its final attempt, the post that
\* attempt created is 'failed' and has no image or publish job.
C9_ContentExhaustedMarksFailed ==
    \A j \in DOMAIN contentJobs :
        contentJobs[j].state = "failed" =>
            \A p \in contentJobs[j].created :
                /\ posts[p].status = "failed"
                /\ \A i \in DOMAIN imageJobs : imageJobs[i].postId # p
                /\ \A k \in DOMAIN publishJobs : publishJobs[k].postId # p

\* C10: every change of a post's status is an allowed transition:
\* generating -> scheduled | failed; scheduled -> posting | rejected |
\* failed; posting -> posted | failed | scheduled.
AllowedTransitions ==
    {<<"generating", "scheduled">>, <<"generating", "failed">>,
     <<"scheduled", "posting">>, <<"scheduled", "rejected">>,
     <<"scheduled", "failed">>,
     <<"posting", "posted">>, <<"posting", "failed">>, <<"posting", "scheduled">>}

C10_OnlyAllowedTransitions ==
    [][\A p \in DOMAIN posts :
          posts'[p].status # posts[p].status
              => <<posts[p].status, posts'[p].status>> \in AllowedTransitions]_vars

\* C11: 'posted' is terminal: no step changes the status of a post that is
\* 'posted'.
C11_PostedTerminal ==
    [][\A p \in DOMAIN posts :
          posts[p].status = "posted" => posts'[p].status = "posted"]_vars

\* C12: a step that adds an image job adds it for a post that exists and
\* that a completed content attempt created; a step that adds a publish job
\* adds it for an existing post to which that step grants publication
\* (status 'posting').
C12_EnqueueOrder ==
    [][/\ Len(imageJobs') > Len(imageJobs) =>
             LET p == imageJobs'[Len(imageJobs')].postId
             IN  /\ postExists(posts', p)
                 /\ \E j \in DOMAIN contentJobs' :
                        /\ contentJobs'[j].state = "completed"
                        /\ p \in contentJobs'[j].created
       /\ Len(publishJobs') > Len(publishJobs) =>
             LET p == publishJobs'[Len(publishJobs')].postId
             IN  /\ postExists(posts', p)
                 /\ posts'[p].status = "posting"]_vars

\* C13: a draft stored with a confidence score at or above the auto
\* threshold is, by the step that stores it, in status 'posting' with a
\* publish job enqueued for it.
C13_AutoApprovedImmediately ==
    [][\A p \in DOMAIN posts' :
          (/\ p \notin DOMAIN posts
           /\ \E s \in posts'[p].confidence_score :
                  s >= getApprovalSettings(settings).CONFIDENCE_THRESHOLD_AUTO)
              => /\ posts'[p].status = "posting"
                 /\ \E j \in DOMAIN publishJobs' : publishJobs'[j].postId = p]_vars

C15_DelayedCheckScheduled ==
    [][\A p \in DOMAIN posts' :
          (p \notin DOMAIN posts /\ posts'[p].approval_method = "delayed_approve")
              => \E t \in DOMAIN timers' : timers'[t].postId = p]_vars

\* C16: a deferred check that fires for a post the user has already approved
\* or rejected does nothing: it does not go on to approve the post.
C16_CheckAfterUserActionIsNoOp ==
    [][\A t \in DOMAIN timers :
          (/\ timers[t].pc = "armed"
           /\ timers'[t].pc # "armed"
           /\ posts[timers[t].postId].approval_method
                  \in {"manual_approve", "manual_reject"})
              => timers'[t].pc = "done"]_vars

\* auto >= delayed >= manual
Ordered(st) ==
    /\ st.CONFIDENCE_THRESHOLD_AUTO >= st.CONFIDENCE_THRESHOLD_DELAYED
    /\ st.CONFIDENCE_THRESHOLD_DELAYED >= st.CONFIDENCE_THRESHOLD_MANUAL

\* C17: every call of decide, for a score s under thresholds auto >= delayed
\* >= manual, returns auto_approve iff s >= auto, delayed_approve iff
\* delayed <= s < auto, optional_review iff manual <= s < delayed and
\* manual_review iff s < manual; with no settings stored the thresholds are
\* 85 / 70 / 60.
C17_DecideThresholds ==
    [][\A sc \in Scores :
          decide(sc) =>
              LET st == getApprovalSettings(settings)
                  a == approvalAction'.action
                  auto == st.CONFIDENCE_THRESHOLD_AUTO
                  delayed == st.CONFIDENCE_THRESHOLD_DELAYED
                  manual == st.CONFIDENCE_THRESHOLD_MANUAL
              IN  /\ settings = <<>> =>
                         (auto = 85 /\ delayed = 70 /\ manual = 60)
                  /\ approvalAction'.confidenceScore = sc
                  /\ Ordered(st) =>
                         /\ a = "auto_approve" <=> sc >= auto
                         /\ a = "delayed_approve" <=> (delayed <= sc /\ sc < auto)
                         /\ a = "optional_review" <=> (manual <= sc /\ sc < delayed)
                         /\ a = "manual_review" <=> sc < manual]_vars

\* C17, its case: decide was called with score 85 under the default
\* thresholds and returned auto_approve.
C17_Witness ==
    /\ approvalAction.called
    /\ approvalAction.confidenceScore = 85
    /\ approvalAction.action = "auto_approve"
    /\ settings = <<DEFAULT_SETTINGS>>

\* C18: every stored settings row has auto >= delayed >= manual.
C18_ThresholdsOrdered == \A i \in DOMAIN settings : Ordered(settings[i])

\* C19: a reject of a post that is already 'rejected' changes nothing: no
\* field of a post and no row of the learning history.
C19_SecondRejectChangesNothing ==
    [][\A p \in PostIds :
          (/\ postExists(posts, p)
           /\ posts[p].status = "rejected"
           /\ rejectPost(p))
              => (posts' = posts /\ approvalHistory' = approvalHistory)]_vars

C21_FailureGivesSafeDefault ==
    [][(~prediction.called /\ prediction'.called
            /\ prediction.args.fails # "none")
           => /\ prediction'.confidenceScore = 50
              /\ prediction'.recommendation = "manual_review"]_vars

\* C26: the completion of an image job, by success or by its last failed
\* attempt, leaves its post evaluated by the predictor and decided by the
\* approval engine (a confidence score and an approval method are stored),
\* and the completion of a content job adds exactly one image job.
C26_ImageCompletionLeadsToDecision ==
    [][/\ \A j \in DOMAIN imageJobs :
             (imageJobs[j].state = "waiting"
                  /\ imageJobs'[j].state \in {"completed", "failed"}
                  /\ postExists(posts, imageJobs[j].postId))
                 => /\ posts'[imageJobs[j].postId].confidence_score # {}
                    /\ posts'[imageJobs[j].postId].approval_method # NULL
       /\ \A j \in DOMAIN contentJobs :
             (contentJobs[j].state # "completed"
                  /\ contentJobs'[j].state = "completed")
                 => Len(imageJobs') = Len(imageJobs) + 1]_vars

\* C27: every failed attempt of an image or publish job that refers to an
\* existing post is recorded on the post before the retry or the terminal
\* transition: its error message is set and its retry count is one higher.
C27_FailedAttemptRecorded ==
    [][/\ \A j \in DOMAIN imageJobs :
             (imageJobs[j].state = "waiting"
                  /\ imageJobs'[j] # imageJobs[j]
                  /\ imageJobs'[j].state \in {"waiting", "failed"}
                  /\ postExists(posts, imageJobs[j].postId))
                 => /\ posts'[imageJobs[j].postId].error_message # NULL
                    /\ posts'[imageJobs[j].postId].retry_count
                           = posts[imageJobs[j].postId].retry_count + 1
       /\ \A j \in DOMAIN publishJobs :
             (publishJobs[j].state = "active"
                  /\ publishJobs'[j].state \in {"waiting", "failed"}
                  /\ postExists(posts, publishJobs[j].postId))
                 => /\ posts'[publishJobs[j].postId].error_message # NULL
                    /\ posts'[publishJobs[j].postId].retry_count
                           = posts[publishJobs[j].postId].retry_count + 1]_vars

\* C28: a publish job whose post does not exist fails without a retry: after
\* its first 'post not found' failure the job is failed for good, having made
\* one attempt.
C28_MissingPostNotRetried ==
    \A j \in DOMAIN publishJobs :
        publishJobs[j].failedReason = "not_found"
            => /\ publishJobs[j].state = "failed"
               /\ publishJobs[j].attemptsMade = 1

\* C30: the recommendation the predictor returns equals the action the
\* approval engine decides for the returned (rounded) score under the
\* default thresholds 85/70/60.
C30_RecommendationEqualsDecision ==
    prediction.called
        => prediction.recommendation
               = approvalActionFor(DEFAULT_SETTINGS, prediction.confidenceScore)

persistedSum(tbl) == sumWeights(tbl, DEFAULT_TOPICS, Len(DEFAULT_TOPICS))

\* C22, as stated: after every recalculation the persisted performance
\* scores of the fixed topics sum to 1 (within 1e-6, which for scores of
\* three decimals is exactly 1).
C22_PersistedWeightsSumToOne ==
    [][calculateTopicWeights => persistedSum(topicWeights') = 1000]_vars

\* C22, amended: after every recalculation the persisted performance scores
\* of the fixed topics, each stored rounded to three decimals, sum to 1
\* within 0.005.
C22_PersistedWeightsSumNearOne ==
    [][calculateTopicWeights
           => /\ persistedSum(topicWeights') >= 995
              /\ persistedSum(topicWeights') <= 1005]_vars

\* C22: the table holds the scores of a recalculation and they do not sum
\* to exactly 1
C22_Witness ==
    /\ DOMAIN topicWeights = TopicSet
    /\ topicWeights = normalizedWeights(topicStats)
    /\ persistedSum(topicWeights) # 1000

\* C23: a topic without posts has, after a recalculation, a strictly
\* positive persisted weight, however large the other topics' weights are.
C23_NewTopicKeepsPositiveWeight ==
    [][calculateTopicWeights
           => \A t \in TopicSet :
                  topicStats[t].total_posts = 0 => topicWeights'[t] > 0]_vars

\* C24: selectTopic always returns a member of the fixed topic set, whatever
\* the table holds and whether or not the query fails; when the query fails
\* or the table is empty every member of the set can be returned.
C24_SelectedTopicInFixedSet ==
    /\ selectedTopic \in TopicSet \cup {NULL}
    /\ \A fails \in BOOLEAN, u \in 0..(RandomSteps - 1), residue \in BOOLEAN :
           selectWeightedTopic(topicWeights, topicOrder, fails, u, residue)
               \in TopicSet
    /\ \A t \in TopicSet :
           \E u \in 0..(RandomSteps - 1) :
               selectWeightedTopic(topicWeights, topicOrder, TRUE, u, FALSE) = t
    /\ DOMAIN topicWeights = {}
           => \A t \in TopicSet :
                  \E u \in 0..(RandomSteps - 1) :
                      selectWeightedTopic(topicWeights, topicOrder, FALSE, u,
                                          FALSE) = t

\* C24: a topic was selected while topic_weights was empty
C24_Witness ==
    /\ selectedTopic \in TopicSet
    /\ DOMAIN topicWeights = {}

\* C25: two consecutive schedulePost calls that both enqueue a job enqueue
\* consecutive topics of the scheduler's list (wrapping), whether or not a
\* post was published between them.
C25_ConsecutiveTopics ==
    [][(/\ Len(scheduledTopics) >= 1
        /\ Len(scheduledTopics') = Len(scheduledTopics) + 1
        /\ scheduledTopics[Len(scheduledTopics)].enqueued
        /\ scheduledTopics'[Len(scheduledTopics')].enqueued)
           => indexOf(scheduledTopics'[Len(scheduledTopics')].topic)
                  = (indexOf(scheduledTopics[Len(scheduledTopics)].topic) + 1)
                        % Len(TOPICS)]_vars

\* The walk of the claim: from row i on, the first row at which the
\* remainder (scaled by RandomSteps) minus the row's weight is not positive
RECURSIVE firstNonPositive(_, _, _, _)
firstNonPositive(tbl, topics, i, remainder) ==
    IF i > Len(topics) THEN "none"
    ELSE IF remainder - RandomSteps * tbl[topics[i]] <= 0 THEN topics[i]
    ELSE firstNonPositive(tbl, topics, i + 1,
                          remainder - RandomSteps * tbl[topics[i]])

requestedSettings(s) ==
    [CONFIDENCE_THRESHOLD_AUTO |-> CHOOSE v \in s.CONFIDENCE_THRESHOLD_AUTO : TRUE,
     CONFIDENCE_THRESHOLD_MANUAL |->
         CHOOSE v \in s.CONFIDENCE_THRESHOLD_MANUAL : TRUE,
     CONFIDENCE_THRESHOLD_DELAYED |->
         CHOOSE v \in s.CONFIDENCE_THRESHOLD_DELAYED : TRUE,
     DELAYED_APPROVAL_MINUTES |-> CHOOSE v \in s.DELAYED_APPROVAL_MINUTES : TRUE]

\* C32: the settings are a lazily created singleton that round-trips: there
\* is at most one row, a first read creates and returns the defaults, and
\* after updateApprovalSettings(s) a following getApprovalSettings returns
\* exactly s, whether or not a read happened before the update.
C32_SettingsRoundTrip ==
    /\ Len(settings) <= 1
    /\ settings = <<>>
           => /\ getApprovalSettings(settings) = DEFAULT_SETTINGS
              /\ createDefaultSettings(settings) = <<DEFAULT_SETTINGS>>
    /\ \A s \in SettingsInputs :
           (/\ s.CONFIDENCE_THRESHOLD_AUTO # {}
            /\ s.CONFIDENCE_THRESHOLD_MANUAL # {}
            /\ s.CONFIDENCE_THRESHOLD_DELAYED # {}
            /\ s.DELAYED_APPROVAL_MINUTES # {})
               => getApprovalSettings(updateApprovalSettings(settings, s))
                      = requestedSettings(s)

\* C33: in every state the approval method of every post is one of auto,
\* manual_approve, manual_reject, delayed, or unset.
C33_ApprovalMethodInEnum ==
    \A p \in DOMAIN posts :
        posts[p].approval_method
            \in {"auto", "manual_approve", "manual_reject", "delayed", NULL}

\* C34: every post whose status is 'failed' has a last error message: the
\* message is written with the status and nothing clears it while the post
\* stays 'failed'.
C34_FailedHasErrorMessage ==
    \A p \in DOMAIN posts :
        posts[p].status = "failed" => posts[p].error_message # NULL

\* C34: a post failed in the publish worker after its last attempt and holds
\* the error's message
C34_Witness ==
    \E p \in DOMAIN posts :
        /\ posts[p].status = "failed"
        /\ posts[p].error_message = "Publish error"
        /\ posts[p].retry_count = attempts

\* C35: whenever a post is 'posting', a publish job for it exists that can
\* still act (waiting for an attempt or a retry, or active).
C35_PostingHasLivePublishJob ==
    \A p \in DOMAIN posts :
        posts[p].status = "posting"
            => \E j \in DOMAIN publishJobs :
                   /\ publishJobs[j].postId = p
                   /\ publishJobs[j].state \in {"waiting", "active"}

\* C36: each content job creates at most one post over all of its attempts:
\* the store never holds more posts than content jobs were added.
C36_OnePostPerContentJob ==
    Len(posts) <= Len(contentJobs)

\* C37: approving a post id that does not exist enqueues no publish job: a
\* publish job is added only for an existing post, which the same step
\* leaves 'posting'.
C37_ApproveMissingPostEnqueuesNothing ==
    [][Len(publishJobs') > Len(publishJobs)
           => LET p == publishJobs'[Len(publishJobs')].postId
              IN  /\ postExists(posts, p)
                  /\ posts'[p].status = "posting"]_vars

\* C38: every post awaiting human review (status 'scheduled' with a
\* manual_review or optional_review decision) is returned by the
\* pending-review listing.
C38_AwaitingReviewIsListed ==
    \A p \in DOMAIN posts :
        (/\ posts[p].status = "scheduled"
         /\ posts[p].approval_method \in {"manual_review", "optional_review"})
            => p \in getPendingReview(posts, PendingLimit)

\* C39: once the application has started, the schedulerActive flag equals
\* whether the three cron tasks are running, right after startup and after
\* any sequence of toggle requests.
C39_FlagEqualsCronRunning ==
    schedulerReady => (schedulerActive = cronRunning)

\* C40: when the image generator returns null, the image job completes and
\* leaves the post 'scheduled' with no image and with the annotation
\* 'Image generation failed - will post text only' as its error message.
C40_TextOnlyAnnotationKept ==
    [][\A j \in DOMAIN imageJobs :
          (/\ imageJobs[j].state = "waiting"
           /\ imageJobs'[j].state = "completed"
           /\ posts'[imageJobs[j].postId].image_url = NULL)
              => /\ posts'[imageJobs[j].postId].status = "scheduled"
                 /\ posts'[imageJobs[j].postId].error_message
                        = "Image generation failed - will post text only"]_vars

====
